---- MODULE Spec2Model ----
(***************************************************************************)
(* Model of openGauss_mcp_server/server.py: the three MCP request handlers *)
(* (list_resources, read_resource, call_tool), the meta-command            *)
(* interpreter, the text formatting they share, and the psycopg2           *)
(* connection / cursor objects they drive.                                 *)
(*                                                                         *)
(* Strings are TLA+ strings (sequences of characters); the Python string   *)
(* methods the handlers use (strip, startswith, upper, split, join,        *)
(* slicing, str) are computed character by character.                      *)
(***************************************************************************)
EXTENDS Integers, Sequences, FiniteSets, TLC

(***************************************************************************)
(* Bounds of the model.                                                    *)
(***************************************************************************)
MaxRequests == 2
MaxRows == 2

(***************************************************************************)
(* Python string primitives.                                               *)
(***************************************************************************)
Char(s, i) == SubSeq(s, i, i)

\* s[k:]
SliceFrom(s, k) == SubSeq(s, k + 1, Len(s))

\* s.startswith(p)
StartsWith(s, p) == Len(s) >= Len(p) /\ SubSeq(s, 1, Len(p)) = p

\* the characters str.strip() removes
IsSpace(c) == c \in {" ", "\t", "\n", "\r", "\f"}

RECURSIVE LStrip(_)
LStrip(s) == IF Len(s) > 0 /\ IsSpace(Char(s, 1)) THEN LStrip(Tail(s)) ELSE s

RECURSIVE RStrip(_)
RStrip(s) ==
    IF Len(s) > 0 /\ IsSpace(Char(s, Len(s)))
    THEN RStrip(SubSeq(s, 1, Len(s) - 1))
    ELSE s

\* s.strip()
Strip(s) == RStrip(LStrip(s))

LowerLetters == "abcdefghijklmnopqrstuvwxyz"
UpperLetters == "ABCDEFGHIJKLMNOPQRSTUVWXYZ"

UpperChar(c) ==
    IF \E i \in 1..26 : Char(LowerLetters, i) = c
    THEN Char(UpperLetters, CHOOSE i \in 1..26 : Char(LowerLetters, i) = c)
    ELSE c

\* s.upper()
RECURSIVE Upper(_)
Upper(s) == IF Len(s) = 0 THEN "" ELSE UpperChar(Char(s, 1)) \o Upper(Tail(s))

\* s.split(sep) for a one-character separator
RECURSIVE Split(_, _)
Split(s, sep) ==
    IF \E i \in 1..Len(s) : Char(s, i) = sep
    THEN LET i == CHOOSE j \in 1..Len(s) :
                     /\ Char(s, j) = sep
                     /\ \A k \in 1..(j - 1) : Char(s, k) # sep
         IN  <<SubSeq(s, 1, i - 1)>> \o Split(SliceFrom(s, i), sep)
    ELSE <<s>>

\* sep.join(parts)
RECURSIVE Join(_, _)
Join(sep, parts) ==
    IF Len(parts) = 0 THEN ""
    ELSE IF Len(parts) = 1 THEN parts[1]
    ELSE parts[1] \o sep \o Join(sep, Tail(parts))

Digits == "0123456789"

RECURSIVE StrNat(_)
StrNat(n) ==
    IF n < 10 THEN Char(Digits, n + 1)
    ELSE StrNat(n \div 10) \o Char(Digits, (n % 10) + 1)

\* str(n) for an int
StrInt(n) == IF n < 0 THEN "-" \o StrNat(0 - n) ELSE StrNat(n)

(***************************************************************************)
(* Values the driver hands back in a row: int, str, bool or None, each     *)
(* with the text str() gives it.                                           *)
(***************************************************************************)
IntCell(n) == [k |-> "int", i |-> n, s |-> "", b |-> FALSE]
StrCell(t) == [k |-> "str", i |-> 0, s |-> t, b |-> FALSE]
BoolCell(v) == [k |-> "bool", i |-> 0, s |-> "", b |-> v]
NoneCell == [k |-> "none", i |-> 0, s |-> "", b |-> FALSE]

\* str(cell)
Str(cell) ==
    CASE cell.k = "int" -> StrInt(cell.i)
      [] cell.k = "str" -> cell.s
      [] cell.k = "bool" -> (IF cell.b THEN "True" ELSE "False")
      [] cell.k = "none" -> "None"

\* An optional string: os.getenv(name) and dict.get(key) return None when
\* the key is absent.
Some(v) == [some |-> TRUE, v |-> v]
None == [some |-> FALSE, v |-> ""]

\* Python truthiness of an optional string
Truthy(o) == o.some /\ o.v # ""

(***************************************************************************)
(* Configuration: get_db_config reads the process environment.  The        *)
(* environment is a record whose fields are the variables that are set.    *)
(***************************************************************************)
Getenv(e, name, default) == IF name \in DOMAIN e THEN Some(e[name]) ELSE default

\* int(s) succeeds on an optionally signed, whitespace-padded digit string
IntLiteral(s) ==
    LET t == Strip(s)
        d == IF Len(t) > 0 /\ Char(t, 1) \in {"+", "-"} THEN Tail(t) ELSE t
    IN  /\ Len(d) > 0
        /\ \A i \in 1..Len(d) : \E j \in 1..10 : Char(Digits, j) = Char(d, i)

RECURSIVE ParseNat(_)
ParseNat(d) ==
    IF Len(d) = 0 THEN 0
    ELSE 10 * ParseNat(SubSeq(d, 1, Len(d) - 1))
         + ((CHOOSE j \in 1..10 : Char(Digits, j) = Char(d, Len(d))) - 1)

\* int(s), for s with IntLiteral(s)
ParseInt(s) ==
    LET t == Strip(s)
    IN  IF Char(t, 1) = "-" THEN 0 - ParseNat(Tail(t))
        ELSE IF Char(t, 1) = "+" THEN ParseNat(Tail(t))
        ELSE ParseNat(t)

\* get_db_config(): raises ValueError when int() rejects the port or when
\* user, password or dbname is unset or empty; otherwise the config dict.
get_db_config(e) ==
    LET portText == Getenv(e, "OPENGAUSS_PORT", Some("5432")).v
        user == Getenv(e, "OPENGAUSS_USER", None)
        password == Getenv(e, "OPENGAUSS_PASSWORD", None)
        dbname == Getenv(e, "OPENGAUSS_DBNAME", None)
    IN  IF ~IntLiteral(portText)
        THEN [raises |-> TRUE, host |-> "", port |-> 0, user |-> None,
              password |-> None, dbname |-> None]
        ELSE [raises |-> ~(Truthy(user) /\ Truthy(password) /\ Truthy(dbname)),
              host |-> Getenv(e, "", Some("localhost")).v,
              port |-> ParseInt(portText),
              user |-> user, password |-> password, dbname |-> dbname]

\* Environments the server process may be started in.
Environments ==
    { [OPENGAUSS_USER |-> "gauss", OPENGAUSS_PASSWORD |-> "pw",
       OPENGAUSS_DBNAME |-> "shop"],
      [OPENGAUSS_USER |-> "gauss", OPENGAUSS_PASSWORD |-> "pw",
       OPENGAUSS_DBNAME |-> "db", OPENGAUSS_PORT |-> " 15400"],
      [OPENGAUSS_USER |-> "gauss", OPENGAUSS_DBNAME |-> "shop"],
      [OPENGAUSS_USER |-> "gauss", OPENGAUSS_PASSWORD |-> "pw",
       OPENGAUSS_DBNAME |-> ""],
      [OPENGAUSS_USER |-> "gauss", OPENGAUSS_PASSWORD |-> "pw",
       OPENGAUSS_DBNAME |-> "shop", OPENGAUSS_PORT |-> "54x2"] }

(***************************************************************************)
(* Requests the transport can deliver.                                     *)
(***************************************************************************)
Uris ==
    { "openGauss://users/data", "openGauss://t/data", "openGauss://users",
      "mysql://users/data", "opengauss://t/data", "users" }

\* arguments.get("query"): None when the key is missing
QueryArgs ==
    { None, Some(""), Some("  "),
      Some("\\d"), Some(" \\dt "), Some("\\d+"), Some("\\du\n"),
      Some("\\z"), Some("\\dt x"), Some("\\D"),
      Some("SELECT 1"), Some("  select a, b from t"), Some("SeLeCt"),
      Some("INSERT INTO t VALUES (1)"), Some("\tdelete from t"),
      Some("WITH x AS (SELECT 1) SELECT * FROM x") }

Request(kind, name, query, uri) ==
    [kind |-> kind, name |-> name, query |-> query, uri |-> uri]

Requests ==
    {Request("list_resources", "", None, "")}
    \cup {Request("read_resource", "", None, u) : u \in Uris}
    \cup {Request("call_tool", "execute_sql", q, "") : q \in QueryArgs}
    \cup {Request("call_tool", "drop_table", q, "") :
            q \in {None, Some("SELECT 1"), Some("\\d")}}

NoRequest == Request("none", "", None, "")

(***************************************************************************)
(* The database as the driver shows it: what cursor.execute leaves in the  *)
(* cursor (description, rows, rowcount) for a statement.                   *)
(***************************************************************************)
ListTablesQuery == "SELECT tablename FROM pg_tables WHERE schemaname = 'public'"
ListTablesDetailedQuery ==
    "SELECT tablename, tableowner, tablespace FROM pg_tables WHERE schemaname = 'public'"
ListTablesExtendedQuery ==
    "SELECT tablename, tableowner, tablespace, hasindexes, hasrules, hastriggers FROM pg_tables WHERE schemaname = 'public'"
ListRolesQuery ==
    "SELECT rolname, rolsuper, rolinherit, rolcreaterole, rolcreatedb, rolcanlogin FROM pg_roles"

CatalogQueries ==
    {ListTablesQuery, ListTablesDetailedQuery, ListTablesExtendedQuery, ListRolesQuery}

\* names of tables (and roles) the catalog may hold
CatalogNames == {"users", "t"}

\* the columns the server names in cursor.description
NativeColumns(stmt) ==
    CASE stmt = ListTablesQuery -> <<"tablename">>
      [] stmt = ListTablesDetailedQuery -> <<"tablename", "tableowner", "tablespace">>
      [] stmt = ListTablesExtendedQuery ->
            <<"tablename", "tableowner", "tablespace", "hasindexes", "hasrules", "hastriggers">>
      [] stmt = ListRolesQuery ->
            <<"rolname", "rolsuper", "rolinherit", "rolcreaterole", "rolcreatedb", "rolcanlogin">>

CatalogRow(stmt, n) ==
    CASE stmt = ListTablesQuery -> <<StrCell(n)>>
      [] stmt = ListTablesDetailedQuery -> <<StrCell(n), StrCell("gauss"), NoneCell>>
      [] stmt = ListTablesExtendedQuery ->
            <<StrCell(n), StrCell("gauss"), NoneCell,
              BoolCell(TRUE), BoolCell(FALSE), BoolCell(FALSE)>>
      [] stmt = ListRolesQuery ->
            <<StrCell(n), BoolCell(TRUE), BoolCell(TRUE),
              BoolCell(FALSE), BoolCell(FALSE), BoolCell(TRUE)>>

SeqsUpTo(S, n) == UNION {[1..k -> S] : k \in 0..n}

Description(cols) == [some |-> TRUE, cols |-> cols]
NoDescription == [some |-> FALSE, cols |-> <<>>]

\* column names and cell values of user tables; no escaping is applied to
\* them, so delimiters inside them are part of the model
UserColumns == {<<"a", "b">>, <<"id">>, <<"n,m">>}
UserCells == {IntCell(-7), StrCell("x"), StrCell("p,q"), StrCell("u\nv")}
RowCounts == {-1, 0, 3, 12}

ResultSets(stmt) ==
    IF stmt \in CatalogQueries
    THEN { [desc |-> Description(NativeColumns(stmt)),
            rows |-> [i \in 1..Len(ns) |-> CatalogRow(stmt, ns[i])],
            rowcount |-> Len(ns)] : ns \in SeqsUpTo(CatalogNames, MaxRows) }
    ELSE UNION { { [desc |-> Description(cols),
                    rows |-> [i \in 1..Len(cs) |-> [j \in 1..Len(cols) |-> cs[i]]],
                    rowcount |-> Len(cs)] : cs \in SeqsUpTo(UserCells, MaxRows) }
                 : cols \in UserColumns }
         \cup { [desc |-> NoDescription, rows |-> <<>>, rowcount |-> k] :
                  k \in RowCounts }

\* messages of the psycopg2.Error the driver may raise
DatabaseErrors == {"connection lost"}

(***************************************************************************)
(* Formatting and classification done by the handlers.                     *)
(***************************************************************************)
\* variant: every line, the last one too, ended by a newline
FormatRowsTrailingNewline(columns, rows) ==
    Join("", <<Join(",", columns) \o "\n">>
             \o [i \in 1..Len(rows) |->
                   Join(",", [j \in 1..Len(rows[i]) |-> Str(rows[i][j])]) \o "\n"])

\* "\n".join([",".join(columns)] + [",".join(map(str, row)) for row in rows])
FormatRows(columns, rows) ==
    Join("\n", <<Join(",", columns)>>
               \o [i \in 1..Len(rows) |->
                     Join(",", [j \in 1..Len(rows[i]) |-> Str(rows[i][j])])])

\* query.strip().startswith("\\")
IsMetaCommand(query) == StartsWith(Strip(query), "\\")

\* query.strip().upper().startswith("SELECT")
IsSelect(query) == StartsWith(Upper(Strip(query)), "SELECT")

\* uri_str.startswith("openGauss://")
ValidScheme(uri_str) == StartsWith(uri_str, "openGauss://")

\* parts = uri_str[8:].split('/'); table = parts[0]
TableOf(uri_str) == Split(SliceFrom(uri_str, 8), "/")[1]

\* f"SELECT * FROM {table} LIMIT 100"
ReadQuery(table) == "SELECT * FROM " \o table \o " LIMIT 100"

\* variant: directives matched by prefix instead of exactly
MetaBranchPrefix(command) ==
    IF StartsWith(command, "\\dt") THEN "dt"
    ELSE IF StartsWith(command, "\\d+") THEN "d+"
    ELSE IF StartsWith(command, "\\du") THEN "du"
    ELSE IF StartsWith(command, "\\d") THEN "d"
    ELSE "unsupported"

\* the branch handle_meta_command takes: exact match on the stripped text
MetaBranch(command) ==
    IF command = "\\d" THEN "d"
    ELSE IF command = "\\dt" THEN "dt"
    ELSE IF command = "\\d+" THEN "d+"
    ELSE IF command = "\\du" THEN "du"
    ELSE "unsupported"

MetaQuery(branch) ==
    CASE branch = "d" -> ListTablesQuery
      [] branch = "dt" -> ListTablesDetailedQuery
      [] branch = "d+" -> ListTablesExtendedQuery
      [] branch = "du" -> ListRolesQuery

MetaColumns(branch) ==
    CASE branch = "dt" -> <<"Table", "Owner", "Tablespace">>
      [] branch = "d+" ->
            <<"Table", "Owner", "Tablespace", "Has Indexes", "Has Rules", "Has Triggers">>
      [] branch = "du" ->
            <<"Role", "Superuser", "Inherit", "Create Role", "Create DB", "Can Login">>

\* the text of a recognised meta-command's result
MetaText(branch, dbname, rows) ==
    IF branch = "d"
    THEN Join("\n", <<"Tables_in_" \o dbname>>
                    \o [i \in 1..Len(rows) |-> rows[i][1].s])
    ELSE FormatRows(MetaColumns(branch), rows)

UnsupportedText(command) == "Unsupported meta-command: " \o command

\* f"Query executed successfully. Rows affected: {cursor.rowcount}"
RowsAffectedText(rowcount) ==
    "Query executed successfully. Rows affected: " \o StrInt(rowcount)

TextContent(text) == [type |-> "text", text |-> text]

\* Resource(uri=..., name=..., mimeType=..., description=...)
Resource(table) ==
    [uri |-> "openGauss://" \o Str(table) \o "/data",
     name |-> "Table: " \o Str(table),
     mimeType |-> "text/plain",
     description |-> "Data in table: " \o Str(table)]

(***************************************************************************)
(* State.                                                                  *)
(*   env    the process environment                                        *)
(*   proc   "boot", "serving" or "exited": position of main()              *)
(*   task   per request id, the handler coroutine: its position (pc), its  *)
(*          request and its local variables                                *)
(*   loop   the id of the task holding the event loop, 0 when it is free   *)
(*   conns  every connection object created so far, in creation order     *)
(*   out    the response last handed back to the transport, with the       *)
(*          driver calls its request made                                  *)
(***************************************************************************)
VARIABLES env, proc, task, loop, conns, out

vars == <<env, proc, task, loop, conns, out>>

TaskIds == 1..MaxRequests

NoExc == [type |-> "none", msg |-> ""]
Exc(type, msg) == [type |-> type, msg |-> msg]

NoReturn == [blocks |-> <<>>, text |-> "", resources |-> <<>>]
ReturnBlocks(text) == [NoReturn EXCEPT !.blocks = <<TextContent(text)>>]
ReturnText(text) == [NoReturn EXCEPT !.text = text]
ReturnResources(rs) == [NoReturn EXCEPT !.resources = rs]

\* a driver call: the method, the connection it went to, the statement it
\* carried and whether it returned (ok) or raised psycopg2.Error
Event(op, c, stmt, ok) == [op |-> op, conn |-> c, stmt |-> stmt, ok |-> ok]

IdleTask ==
    [pc |-> "idle", req |-> NoRequest, dbname |-> "", table |-> "",
     conn |-> 0, stmt |-> "", desc |-> NoDescription, buffer |-> <<>>,
     rows |-> <<>>, rowcount |-> -1, exc |-> NoExc, ret |-> NoReturn,
     log |-> <<>>, dberr |-> FALSE]

DoneTask == [IdleTask EXCEPT !.pc = "done"]

NoOut ==
    [id |-> 0, req |-> NoRequest, outcome |-> "none", exc |-> NoExc,
     ret |-> NoReturn, log |-> <<>>, dberr |-> FALSE, dbname |-> "",
     table |-> "", conn |-> 0, desc |-> NoDescription, rows |-> <<>>,
     rowcount |-> -1]

Init ==
    /\ env \in Environments
    /\ proc = "boot"
    /\ task = [t \in TaskIds |-> IdleTask]
    /\ loop = 0
    /\ conns = <<>>
    /\ out = NoOut

(***************************************************************************)
(* main(): get_db_config() once before serving; its ValueError ends the    *)
(* process.                                                                *)
(***************************************************************************)
Main ==
    /\ proc = "boot"
    /\ proc' = IF get_db_config(env).raises THEN "exited" ELSE "serving"
    /\ UNCHANGED <<env, task, loop, conns, out>>

(***************************************************************************)
(* Scheduling.  The handlers are coroutines on one event loop; another     *)
(* task can get the loop only where the running one awaits.  None of the   *)
(* handlers contains an await.                                             *)
(***************************************************************************)
\* variant: an awaited execute, as with an asynchronous driver
YieldsAtExecute(pc) == pc = "execute"

Yields(pc) == FALSE

CanRun(t) ==
    /\ proc = "serving"
    /\ \/ loop = t
       \/ loop = 0
       \/ (loop \in TaskIds /\ Yields(task[loop].pc))

\* app.run(): the response of the finished task has gone to the transport,
\* and the next message becomes a task
Dispatch(t, r) ==
    /\ task[t].pc = "idle"
    /\ \A u \in TaskIds : u < t => task[u].pc # "idle"
    /\ CanRun(t)
    /\ task' = [task EXCEPT ![t] = [IdleTask EXCEPT !.pc = "start", !.req = r]]
    /\ loop' = t
    /\ out' = NoOut
    /\ UNCHANGED <<env, proc, conns>>

(***************************************************************************)
(* The except clauses of the three handlers, and the end of a request.     *)
(***************************************************************************)
Returns(ret) == [outcome |-> "return", exc |-> NoExc, ret |-> ret]
Raises(exc) == [outcome |-> "raise", exc |-> exc, ret |-> NoReturn]

\* variant: the listing handler re-raises as the reading handler does
list_resources_reraise(e) == Raises(Exc("RuntimeError", "Database error: " \o e.msg))

\* except Error as e: return []
list_resources_except(e) == Returns(ReturnResources(<<>>))

\* except Error as e: raise RuntimeError(f"Database error: {str(e)}")
read_resource_except(e) == Raises(Exc("RuntimeError", "Database error: " \o e.msg))

\* variant: the tool handler re-raises as the reading handler does
call_tool_reraise(e) == Raises(Exc("RuntimeError", "Database error: " \o e.msg))

\* except Error as e: return [TextContent(text=f"Error executing query: {str(e)}")]
call_tool_except(e) == Returns(ReturnBlocks("Error executing query: " \o e.msg))

\* how the handler ends, given the exception or return value in flight
Conclude(tk) ==
    IF tk.exc.type = "Error"
    THEN CASE tk.req.kind = "list_resources" -> list_resources_except(tk.exc)
           [] tk.req.kind = "read_resource" -> read_resource_except(tk.exc)
           [] tk.req.kind = "call_tool" -> call_tool_except(tk.exc)
    ELSE IF tk.exc.type # "none" THEN Raises(tk.exc)
    ELSE Returns(tk.ret)

Observation(t, tk) ==
    LET end == Conclude(tk)
    IN  [id |-> t, req |-> tk.req, outcome |-> end.outcome, exc |-> end.exc,
         ret |-> end.ret, log |-> tk.log, dberr |-> tk.dberr,
         dbname |-> tk.dbname, table |-> tk.table, conn |-> tk.conn,
         desc |-> tk.desc, rows |-> tk.rows, rowcount |-> tk.rowcount]

\* the handler coroutine of task t ends with local state tk
Finish(t, tk) ==
    /\ out' = Observation(t, tk)
    /\ task' = [task EXCEPT ![t] = DoneTask]
    /\ loop' = 0

\* the handler coroutine of task t goes on with local state tk
Continue(t, tk) ==
    /\ task' = [task EXCEPT ![t] = tk]
    /\ loop' = t
    /\ out' = out

ConfigError == Exc("ValueError", "Missing required database configuration")

(***************************************************************************)
(* The handlers up to their connect() call.                                *)
(***************************************************************************)
\* list_resources, line 37
ListResourcesBegin(t) ==
    /\ task[t].pc = "start"
    /\ task[t].req.kind = "list_resources"
    /\ CanRun(t)
    /\ LET tk == task[t]
           config == get_db_config(env)
       IN  IF config.raises
           THEN Finish(t, [tk EXCEPT !.exc = ConfigError])
           ELSE Continue(t, [tk EXCEPT !.pc = "connect", !.dbname = config.dbname.v])
    /\ UNCHANGED <<env, proc, conns>>

\* read_resource, lines 63-71
ReadResourceBegin(t) ==
    /\ task[t].pc = "start"
    /\ task[t].req.kind = "read_resource"
    /\ CanRun(t)
    /\ LET tk == task[t]
           config == get_db_config(env)
           uri_str == tk.req.uri
       IN  IF config.raises
           THEN Finish(t, [tk EXCEPT !.exc = ConfigError])
           ELSE IF ~ValidScheme(uri_str)
           THEN Finish(t, [tk EXCEPT !.exc =
                             Exc("ValueError", "Invalid URI scheme: " \o uri_str)])
           ELSE Continue(t, [tk EXCEPT !.pc = "connect",
                                       !.dbname = config.dbname.v,
                                       !.table = TableOf(uri_str)])
    /\ UNCHANGED <<env, proc, conns>>

\* if name != "execute_sql"
UnknownTool(name) == name # "execute_sql"

\* variant: "if query is None", which lets the empty string through
QueryAbsent(query) == ~query.some

\* query = arguments.get("query"); if not query
QueryMissing(query) == ~Truthy(query)

\* call_tool, lines 154-162
CallToolBegin(t) ==
    /\ task[t].pc = "start"
    /\ task[t].req.kind = "call_tool"
    /\ CanRun(t)
    /\ LET tk == task[t]
           config == get_db_config(env)
       IN  IF config.raises
           THEN Finish(t, [tk EXCEPT !.exc = ConfigError])
           ELSE IF UnknownTool(tk.req.name)
           THEN Finish(t, [tk EXCEPT !.exc =
                             Exc("ValueError", "Unknown tool: " \o tk.req.name)])
           ELSE IF QueryMissing(tk.req.query)
           THEN Finish(t, [tk EXCEPT !.exc = Exc("ValueError", "Query is required")])
           ELSE Continue(t, [tk EXCEPT !.pc = "connect", !.dbname = config.dbname.v])
    /\ UNCHANGED <<env, proc, conns>>

(***************************************************************************)
(* The body of the with blocks, between two driver calls.                  *)
(***************************************************************************)
TypeErrorNone == Exc("TypeError", "'NoneType' object is not iterable")

\* from "with conn.cursor() as cursor:" to the first driver call
AfterCursor(tk) ==
    CASE tk.req.kind = "list_resources" ->
            [tk EXCEPT !.pc = "execute", !.stmt = ListTablesQuery]
      [] tk.req.kind = "read_resource" ->
            [tk EXCEPT !.pc = "execute", !.stmt = ReadQuery(tk.table)]
      [] tk.req.kind = "call_tool" ->
            LET query == tk.req.query.v
                command == Strip(query)
                branch == MetaBranch(command)
            IN  IF IsMetaCommand(query)
                THEN IF branch = "unsupported"
                     THEN [tk EXCEPT !.pc = "exit",
                                     !.ret = ReturnBlocks(UnsupportedText(command))]
                     ELSE [tk EXCEPT !.pc = "execute", !.stmt = MetaQuery(branch)]
                ELSE [tk EXCEPT !.pc = "execute", !.stmt = query]

\* columns = [desc[0] for desc in cursor.description]
ReadDescription(tk) ==
    IF tk.desc.some THEN [tk EXCEPT !.pc = "fetch"]
    ELSE [tk EXCEPT !.pc = "exit", !.exc = TypeErrorNone]

\* from a successful cursor.execute to the next driver call
AfterExecute(tk) ==
    CASE tk.req.kind = "list_resources" -> [tk EXCEPT !.pc = "fetch"]
      [] tk.req.kind = "read_resource" -> ReadDescription(tk)
      [] tk.req.kind = "call_tool" ->
            IF IsMetaCommand(tk.req.query.v) THEN [tk EXCEPT !.pc = "fetch"]
            ELSE IF IsSelect(tk.req.query.v) THEN ReadDescription(tk)
            ELSE [tk EXCEPT !.pc = "commit"]

\* from a successful cursor.fetchall to the return statement
AfterFetch(tk) ==
    CASE tk.req.kind = "list_resources" ->
            [tk EXCEPT !.pc = "exit",
                       !.ret = ReturnResources(
                                 [i \in 1..Len(tk.rows) |-> Resource(tk.rows[i][1])])]
      [] tk.req.kind = "read_resource" ->
            [tk EXCEPT !.pc = "exit",
                       !.ret = ReturnText(FormatRows(tk.desc.cols, tk.rows))]
      [] tk.req.kind = "call_tool" ->
            IF IsMetaCommand(tk.req.query.v)
            THEN [tk EXCEPT !.pc = "exit",
                            !.ret = ReturnBlocks(
                                      MetaText(MetaBranch(Strip(tk.req.query.v)),
                                               tk.dbname, tk.rows))]
            ELSE [tk EXCEPT !.pc = "exit",
                            !.ret = ReturnBlocks(FormatRows(tk.desc.cols, tk.rows))]

\* variant: the count of fetched rows reported in place of cursor.rowcount
AfterCommitRowsFetched(tk) ==
    [tk EXCEPT !.pc = "exit", !.ret = ReturnBlocks(RowsAffectedText(Len(tk.rows)))]

\* from a successful conn.commit() to the return statement
AfterCommit(tk) ==
    [tk EXCEPT !.pc = "exit", !.ret = ReturnBlocks(RowsAffectedText(tk.rowcount))]

\* a driver call of task tk raises psycopg2.Error inside the with blocks
DriverError(tk, msg) ==
    [tk EXCEPT !.pc = "exit", !.exc = Exc("Error", msg), !.dberr = TRUE]

(***************************************************************************)
(* Driver calls.  Each one may raise psycopg2.Error.                       *)
(***************************************************************************)
NewConnection(t) == [owner |-> t, closed |-> FALSE, cursor |-> "open", txn |-> FALSE]

\* with connect(**config) as conn: with conn.cursor() as cursor:
Connect(t) ==
    /\ task[t].pc = "connect"
    /\ CanRun(t)
    /\ LET tk == task[t]
           c == Len(conns) + 1
       IN  \/ /\ conns' = Append(conns, NewConnection(t))
              /\ Continue(t, AfterCursor([tk EXCEPT !.conn = c,
                                             !.log = Append(@, Event("connect", c, "", TRUE))]))
           \/ \E msg \in DatabaseErrors :
                /\ conns' = conns
                /\ Finish(t, [tk EXCEPT !.exc = Exc("Error", msg), !.dberr = TRUE,
                                        !.log = Append(@, Event("connect", 0, "", FALSE))])
    /\ UNCHANGED <<env, proc>>

\* cursor.execute(stmt): the first statement on a connection opens its
\* transaction, which a failed statement leaves open (aborted)
Execute(t) ==
    /\ task[t].pc = "execute"
    /\ CanRun(t)
    /\ LET tk == task[t]
           call(ok) == Event("execute", tk.conn, tk.stmt, ok)
       IN  /\ conns' = [conns EXCEPT ![tk.conn].txn = TRUE]
           /\ \/ \E rs \in ResultSets(tk.stmt) :
                   Continue(t, AfterExecute([tk EXCEPT !.log = Append(@, call(TRUE)),
                                                !.desc = rs.desc,
                                                !.buffer = rs.rows,
                                                !.rowcount = rs.rowcount]))
              \/ \E msg \in DatabaseErrors :
                   Continue(t, DriverError([tk EXCEPT !.log = Append(@, call(FALSE))], msg))
    /\ UNCHANGED <<env, proc>>

\* rows = cursor.fetchall()
Fetch(t) ==
    /\ task[t].pc = "fetch"
    /\ CanRun(t)
    /\ LET tk == task[t]
           call(ok) == Event("fetchall", tk.conn, "", ok)
       IN  \/ Continue(t, AfterFetch([tk EXCEPT !.log = Append(@, call(TRUE)),
                                              !.rows = tk.buffer, !.buffer = <<>>]))
           \/ \E msg \in DatabaseErrors :
                Continue(t, DriverError([tk EXCEPT !.log = Append(@, call(FALSE))], msg))
    /\ UNCHANGED <<env, proc, conns>>

\* conn.commit(), line 183
Commit(t) ==
    /\ task[t].pc = "commit"
    /\ CanRun(t)
    /\ LET tk == task[t]
           call(ok) == Event("commit", tk.conn, "", ok)
       IN  \/ /\ conns' = [conns EXCEPT ![tk.conn].txn = FALSE]
              /\ Continue(t, AfterCommit([tk EXCEPT !.log = Append(@, call(TRUE))]))
           \/ \E msg \in DatabaseErrors :
                /\ conns' = conns
                /\ Continue(t, DriverError([tk EXCEPT !.log = Append(@, call(FALSE))], msg))
    /\ UNCHANGED <<env, proc>>

(***************************************************************************)
(* Leaving the with blocks.  The cursor's __exit__ closes the cursor.  The *)
(* psycopg2 connection's __exit__ ends the transaction and leaves the      *)
(* connection open: it commits when the block ends without an exception    *)
(* (a return included) and rolls back when it ends with one.  No handler   *)
(* calls conn.close(); the connection is closed when the interpreter       *)
(* finalises the unreferenced object, which the language does not place at *)
(* the end of the request: the object can outlive the coroutine (a         *)
(* traceback that keeps the frame, a collector without reference counts).  *)
(***************************************************************************)
\* connection.__exit__: the log and exception after it ran
ConnectionExit(tk, txn, commitOk) ==
    IF tk.exc.type # "none"
    THEN [tk EXCEPT !.log = Append(@, Event("exit_rollback", tk.conn, "", TRUE))]
    ELSE IF ~txn THEN tk
    ELSE IF commitOk
    THEN [tk EXCEPT !.log = Append(@, Event("exit_commit", tk.conn, "", TRUE))]
    ELSE [tk EXCEPT !.log = Append(@, Event("exit_commit", tk.conn, "", FALSE)),
                    !.exc = Exc("Error", "connection lost"), !.dberr = TRUE,
                    !.ret = NoReturn]

\* does leaving the with block close the connection
ExitCloses(finalised) == finalised

Exit(t) ==
    /\ task[t].pc = "exit"
    /\ CanRun(t)
    /\ \E commitOk \in BOOLEAN, finalised \in BOOLEAN :
         LET tk == [task[t] EXCEPT !.log = Append(@, Event("cursor_close", task[t].conn, "", TRUE))]
             c == tk.conn
         IN  /\ conns' = [conns EXCEPT ![c].cursor = "closed",
                                       ![c].txn = FALSE,
                                       ![c].closed = ExitCloses(finalised)]
             /\ Finish(t, ConnectionExit(tk, conns[c].txn, commitOk))
    /\ UNCHANGED <<env, proc>>

\* the interpreter finalises a connection object no coroutine refers to
Finalize(c) ==
    /\ proc = "serving"
    /\ c \in DOMAIN conns
    /\ ~conns[c].closed
    /\ task[conns[c].owner].pc = "done"
    /\ conns' = [conns EXCEPT ![c].closed = TRUE]
    /\ UNCHANGED <<env, proc, task, loop, out>>

Next ==
    \/ Main
    \/ \E t \in TaskIds, r \in Requests : Dispatch(t, r)
    \/ \E t \in TaskIds : ListResourcesBegin(t)
    \/ \E t \in TaskIds : ReadResourceBegin(t)
    \/ \E t \in TaskIds : CallToolBegin(t)
    \/ \E t \in TaskIds : Connect(t)
    \/ \E t \in TaskIds : Execute(t)
    \/ \E t \in TaskIds : Fetch(t)
    \/ \E t \in TaskIds : Commit(t)
    \/ \E t \in TaskIds : Exit(t)
    \/ \E c \in 1..MaxRequests : Finalize(c)

Spec == Init /\ [][Next]_vars

(***************************************************************************)
(* Properties.  They are stated over `out`, the record of the request that *)
(* ended last (every request passes through it when it ends), and over the *)
(* running tasks.                                                          *)
(***************************************************************************)
Completed == out.outcome # "none"

Ops(log) == [i \in 1..Len(log) |-> log[i].op]

HasOp(log, op) == \E i \in 1..Len(log) : log[i].op = op

CountOp(log, op) == Cardinality({i \in 1..Len(log) : log[i].op = op})

\* a call_tool request that passes the validation of its arguments
ValidToolCall(r) ==
    /\ r.kind = "call_tool"
    /\ r.name = "execute_sql"
    /\ r.query.some
    /\ r.query.v # ""

\* a request that fails the validation of its arguments
InvalidRequest(r) ==
    \/ r.kind = "call_tool" /\ ~ValidToolCall(r)
    \/ r.kind = "read_resource"
         /\ ~(Len(r.uri) >= 12 /\ SubSeq(r.uri, 1, 12) = "openGauss://")

Trimmed(r) == Strip(r.query.v)

BackslashQuery(r) == Len(Trimmed(r)) >= 1 /\ Char(Trimmed(r), 1) = "\\"

SelectQuery(r) ==
    /\ ~BackslashQuery(r)
    /\ Len(Trimmed(r)) >= 6
    /\ Upper(SubSeq(Trimmed(r), 1, 6)) = "SELECT"

OutText == out.ret.blocks[1].text

OneTextBlock == Len(out.ret.blocks) = 1 /\ out.ret.blocks[1].type = "text"

\* C1: a call_tool request with name "execute_sql" and a non-empty query
\* during which the driver raised a database error (in connect, execute,
\* fetchall or a commit) ends by returning one text block whose text starts
\* with "Error executing query: "; it never ends by raising.
C1_DatabaseErrorIsText ==
    (Completed /\ ValidToolCall(out.req) /\ out.dberr)
        => /\ out.outcome = "return"
           /\ OneTextBlock
           /\ StartsWith(OutText, "Error executing query: ")

C1_Witness ==
    /\ Completed /\ ValidToolCall(out.req) /\ out.dberr
    /\ HasOp(out.log, "execute")
    /\ out.outcome = "return"

\* C2: a request that fails argument validation (call_tool with another
\* name or a missing or empty query, read_resource with a URI outside the
\* scheme) raises without a driver call: it opens no connection and
\* executes no statement, whatever requests came before it.
C2_InvalidNeverTouchesDatabase ==
    /\ \A t \in TaskIds :
         InvalidRequest(task[t].req)
            => /\ task[t].log = <<>>
               /\ task[t].conn = 0
               /\ task[t].pc \in {"start", "done"}
               /\ \A c \in DOMAIN conns : conns[c].owner # t
    /\ (Completed /\ InvalidRequest(out.req))
            => /\ out.outcome = "raise"
               /\ out.exc.type = "ValueError"
               /\ out.log = <<>>
               /\ \A c \in DOMAIN conns : conns[c].owner # out.id

C2_Witness ==
    /\ Completed /\ InvalidRequest(out.req)
    /\ out.req.kind = "call_tool" /\ out.req.name = "execute_sql"
    /\ out.req.query = Some("")
    /\ Len(conns) >= 1

\* C3: every connection a request opened, and its cursor, is closed once
\* that request has returned or raised.
C3_ClosedWhenRequestEnds ==
    \A c \in DOMAIN conns :
        task[conns[c].owner].pc = "done"
            => conns[c].closed /\ conns[c].cursor = "closed"

\* the path segment right after "openGauss://"
SegmentAfterScheme(uri) == Split(SubSeq(uri, 13, Len(uri)), "/")[1]

DataUri(uri) ==
    \E n \in CatalogNames : uri = "openGauss://" \o n \o "/data"

\* C4: for a URI "openGauss://<table>/data", the statement read_resource
\* executes is "SELECT * FROM <table> LIMIT 100", <table> being the path
\* segment right after the scheme prefix.
C4_ReadsTheNamedTable ==
    \A t \in TaskIds :
        (/\ task[t].req.kind = "read_resource"
         /\ DataUri(task[t].req.uri)
         /\ task[t].pc = "execute")
            => task[t].stmt
                 = "SELECT * FROM " \o SegmentAfterScheme(task[t].req.uri) \o " LIMIT 100"

\* decimal text of the affected-row counts the driver reports
Decimal(k) ==
    CASE k = -1 -> "-1" [] k = 0 -> "0" [] k = 3 -> "3" [] k = 12 -> "12"
      [] k = 1 -> "1" [] k = 2 -> "2" [] OTHER -> "?"

\* C5: a call_tool statement that is neither a meta-command nor a SELECT,
\* and during which no database error is raised, is executed as given, then
\* committed by conn.commit(), and answered with exactly
\* "Query executed successfully. Rows affected: <k>", k being the rowcount
\* the driver reported for that execution.
C5_NonSelectCommitsAndCounts ==
    (/\ Completed /\ ValidToolCall(out.req) /\ ~out.dberr
     /\ ~BackslashQuery(out.req) /\ ~SelectQuery(out.req))
        => /\ out.outcome = "return"
           /\ OneTextBlock
           /\ Ops(out.log) = <<"connect", "execute", "commit", "cursor_close">>
           /\ out.log[2].stmt = out.req.query.v
           /\ OutText = "Query executed successfully. Rows affected: "
                           \o Decimal(out.rowcount)

C5_Witness ==
    /\ Completed /\ ValidToolCall(out.req) /\ ~out.dberr
    /\ out.req.query.v = "\tdelete from t"
    /\ out.rowcount = 12
    /\ HasOp(out.log, "commit")

\* a SELECT passed to call_tool that ended with its rows formatted
SelectAnswered ==
    /\ Completed /\ ValidToolCall(out.req) /\ SelectQuery(out.req)
    /\ ~out.dberr
    /\ out.outcome = "return"

HasDelimiter(s) == \E i \in 1..Len(s) : Char(s, i) \in {",", "\n"}

\* no column name and no str() of a cell holds a comma or a newline
DelimiterFree(columns, rows) ==
    /\ \A j \in 1..Len(columns) : ~HasDelimiter(columns[j])
    /\ \A i \in 1..Len(rows) : \A j \in 1..Len(rows[i]) : ~HasDelimiter(Str(rows[i][j]))

OutLines == Split(OutText, "\n")

\* C6 as claimed: for every SELECT returning N rows and C columns the text
\* has exactly N+1 newline-separated lines and every data line has exactly
\* C comma-separated fields.
C6_LinesAndFieldsAlways ==
    SelectAnswered
        => /\ Len(OutLines) = Len(out.rows) + 1
           /\ \A i \in 2..Len(OutLines) :
                Len(Split(OutLines[i], ",")) = Len(out.desc.cols)

\* C6, amended: for a SELECT returning N rows and C columns, the statement
\* is executed as given (no row cap), and the text is the header followed
\* by one piece per row in result order, pieces joined by newlines, cells
\* joined by commas and not escaped.  When no column name and no cell text
\* holds a comma or a newline, the text has exactly N+1 lines, the first
\* splits into the C column names and data line i splits into the C cells
\* of row i; with N = 0 and columns a, b the text is exactly "a,b".
C6_LinesAndFields ==
    SelectAnswered
        => /\ OneTextBlock
           /\ out.log[2].stmt = out.req.query.v
           /\ Len(OutText) =
                Len(out.rows)
                + Len(Join(",", out.desc.cols))
                + Len(Join("", [i \in 1..Len(out.rows) |->
                         Join(",", [j \in 1..Len(out.rows[i]) |-> Str(out.rows[i][j])])]))
           /\ DelimiterFree(out.desc.cols, out.rows)
                => /\ Len(OutLines) = Len(out.rows) + 1
                   /\ Split(OutLines[1], ",") = out.desc.cols
                   /\ \A i \in 1..Len(out.rows) :
                        Split(OutLines[i + 1], ",")
                          = [j \in 1..Len(out.desc.cols) |-> Str(out.rows[i][j])]
           /\ (out.desc.cols = <<"a", "b">> /\ out.rows = <<>>) => OutText = "a,b"

C6_Witness ==
    /\ SelectAnswered
    /\ out.desc.cols = <<"a", "b">>
    /\ Len(out.rows) = MaxRows
    /\ DelimiterFree(out.desc.cols, out.rows)

\* the header the dispatch table gives a recognised directive
DirectiveHeader(directive) ==
    CASE directive = "\\d" -> "Tables_in_" \o env.OPENGAUSS_DBNAME
      [] directive = "\\dt" -> "Table,Owner,Tablespace"
      [] directive = "\\d+" -> "Table,Owner,Tablespace,Has Indexes,Has Rules,Has Triggers"
      [] directive = "\\du" -> "Role,Superuser,Inherit,Create Role,Create DB,Can Login"

\* C7: a call_tool query whose trimmed text starts with a backslash, and
\* during which no database error is raised, is answered by exact match of
\* the trimmed text: \d, \dt, \d+ and \du give their fixed header (not the
\* database's column names) followed by one line per returned row; any
\* other text executes no statement and returns exactly
\* "Unsupported meta-command: <trimmed text>" as a normal response.
C7_MetaCommandTable ==
    (/\ Completed /\ ValidToolCall(out.req) /\ BackslashQuery(out.req)
     /\ ~out.dberr)
        => /\ out.outcome = "return"
           /\ OneTextBlock
           /\ IF Trimmed(out.req) \in {"\\d", "\\dt", "\\d+", "\\du"}
              THEN /\ OutLines[1] = DirectiveHeader(Trimmed(out.req))
                   /\ OutLines[1] # Join(",", out.desc.cols)
                   /\ Len(OutLines) = 1 + Len(out.rows)
                   /\ CountOp(out.log, "execute") = 1
              ELSE /\ OutText = "Unsupported meta-command: " \o Trimmed(out.req)
                   /\ ~HasOp(out.log, "execute")

C7_Witness ==
    /\ Completed /\ ValidToolCall(out.req) /\ ~out.dberr
    /\ out.req.query.v = "\\dt x"
    /\ OutText = "Unsupported meta-command: \\dt x"

\* C8: list_resources never ends by raising on a database error: when the
\* driver raised one during the request it returns the empty sequence;
\* when it raised none it returns one resource per table-name row, in row
\* order, with uri "openGauss://<table>/data" and mime type "text/plain".
C8_ListingNeverRaises ==
    (Completed /\ out.req.kind = "list_resources")
        => /\ out.outcome = "return"
           /\ out.dberr => out.ret.resources = <<>>
           /\ ~out.dberr =>
                /\ Len(out.ret.resources) = Len(out.rows)
                /\ \A i \in 1..Len(out.rows) :
                     /\ out.ret.resources[i].uri
                          = "openGauss://" \o out.rows[i][1].s \o "/data"
                     /\ out.ret.resources[i].mimeType = "text/plain"

C8_Witness ==
    /\ Completed /\ out.req.kind = "list_resources"
    /\ out.dberr
    /\ HasOp(out.log, "fetchall")
    /\ out.ret.resources = <<>>

InFlight(t) == task[t].pc \notin {"idle", "done"}

\* C9: at most one request is between its dispatch and its response at any
\* moment; a request that passes validation calls connect() exactly once
\* and one that fails it never does; every connection belongs to one
\* request, distinct from the request of every other connection, and every
\* driver call of a request goes to that request's own connection.
C9_SerialAndUnshared ==
    /\ Cardinality({t \in TaskIds : InFlight(t)}) <= 1
    /\ \A c, d \in DOMAIN conns : c # d => conns[c].owner # conns[d].owner
    /\ \A t \in TaskIds :
         /\ \A i \in 1..Len(task[t].log) :
              task[t].log[i].conn # 0 => conns[task[t].log[i].conn].owner = t
         /\ CountOp(task[t].log, "connect") =
              (IF task[t].pc \in {"execute", "fetch", "commit", "exit"} THEN 1 ELSE 0)
    /\ Completed =>
         /\ \A i \in 1..Len(out.log) :
              out.log[i].conn # 0 => conns[out.log[i].conn].owner = out.id
         /\ CountOp(out.log, "connect") = (IF InvalidRequest(out.req) THEN 0 ELSE 1)

C9_Witness ==
    /\ Len(conns) = 2
    /\ Completed /\ out.id = 2 /\ out.conn = 2
    /\ HasOp(out.log, "execute")

\* a commit of the request's transaction that went through, by
\* conn.commit() or on leaving the with block
CommitAt(log, i) == log[i].op \in {"commit", "exit_commit"} /\ log[i].ok

\* C10: within a call_tool request a commit happens if and only if the
\* statement is neither a SELECT nor a meta-command and its execution
\* raised no database error, and then after the execute and before the
\* response; a SELECT, a meta-command and a failed statement never commit
\* on their connection.
C10_CommitOnlyForNonSelect ==
    (Completed /\ ValidToolCall(out.req))
        => /\ (\E i \in 1..Len(out.log) : CommitAt(out.log, i))
                <=> /\ ~SelectQuery(out.req)
                    /\ ~BackslashQuery(out.req)
                    /\ ~out.dberr
           /\ \A i \in 1..Len(out.log) :
                CommitAt(out.log, i) => \E j \in 1..(i - 1) : out.log[j].op = "execute"

====
